---------------------------- MODULE Spec2Model ----------------------------
(***************************************************************************)
(* Model of the adathermal thermal printer driver (adathermal.py) and of   *)
(* the print daemon that drives it (thermald.py).                          *)
(*                                                                         *)
(* Spec is the driver on a sound transport, FaultSpec the driver on a      *)
(* serial link that may fail, LoopSpec the daemon: its request handlers    *)
(* and its worker thread, LoopLiveSpec the daemon with its threads         *)
(* scheduled fairly.                                                       *)
(*                                                                         *)
(* One ThermalPrinter instance driven by one caller.  Times are integers   *)
(* in microseconds.  Characters and bytes are integers (code points and    *)
(* byte values).  Every public operation of the driver is one action; the  *)
(* operations themselves are operators from a driver record to a driver    *)
(* record, written statement by statement after the Python source.         *)
(*                                                                         *)
(* Besides the fields of the Python object the record carries              *)
(*   now    : the wall clock (time.time()),                                *)
(*   out    : what the transport received during the current operation,    *)
(*   log    : the gate events of the current operation, in program order,  *)
(*   raised : the exception that ended the current operation, or "none",   *)
(*   ret    : the value the current operation returned, as Python prints   *)
(*            it ("None" when it returned nothing),                        *)
(*   link   : the number of Serial.write calls the serial link will still  *)
(*            accept before it fails, or -1 when it does not fail.         *)
(*                                                                         *)
(* Executing Python statements is taken to cost no time: the clock moves   *)
(* only in timeout_wait (busy wait), time.sleep and between operations.    *)
(*                                                                         *)
(* The driver reads the clock only in the difference time.time() -         *)
(* resume_time and in the sum time.time() + x, so its behaviour does not   *)
(* depend on where the clock's origin lies.  The model moves the origin    *)
(* to the present each time control returns to the caller (Return), and    *)
(* resume_time with it: between operations now = 0 and resume_time is the  *)
(* busy time that is left (not positive once the busy period is over).     *)
(***************************************************************************)
EXTENDS Integers, Sequences, FiniteSets, TLC

VARIABLES
    resume_time, byte_time, dot_print_time, dot_feed_time,
    prev_byte, column, max_column, char_height, line_spacing,
    barcode_height, print_mode, firmware_version, write_to_stdout,
    now, out, log, raised, ret, link,
    op, arg, pre, nops,
    \* the print daemon (thermald.py)
    args_stdout, device, serving, requests, print_queue,
    pc, task, step, printer, tag_printer, created,
    inside, callers, last, failed_at, handled, died

\* the driver and the record of its last call
driver_vars ==
    << resume_time, byte_time, dot_print_time, dot_feed_time,
       prev_byte, column, max_column, char_height, line_spacing,
       barcode_height, print_mode, firmware_version, write_to_stdout,
       now, out, log, raised, ret, link, op, arg, pre, nops >>

\* the print daemon
daemon_vars ==
    << args_stdout, device, serving, requests, print_queue,
       pc, task, step, printer, tag_printer, created,
       inside, callers, last, failed_at, handled, died >>

vars == << driver_vars, daemon_vars >>

---------------------------------------------------------------------------
(* Bounds of the model *)

\* longest sequence of driver operations explored after construction
MaxOps == 2
\* longest run of printable characters handed to write() in one call
MaxRun == 40

---------------------------------------------------------------------------
(* Program constants *)

NL == 10
XOFF == 19
DEFAULT_BAUDRATE == 19200
DEFAULT_FIRMWARE == 268
default_heat_time == 120
MICROS == 1000000

INVERSE_MASK == 2
UPDOWN_MASK == 4
BOLD_MASK == 8
DOUBLE_HEIGHT_MASK == 16
DOUBLE_WIDTH_MASK == 32
STRIKE_MASK == 64

---------------------------------------------------------------------------
(* Arithmetic helpers *)

RECURSIVE BitAnd(_, _)
\* Python's a & b on non-negative integers
BitAnd(a, b) ==
    IF a = 0 \/ b = 0 THEN 0
    ELSE 2 * BitAnd(a \div 2, b \div 2) + (IF a % 2 = 1 /\ b % 2 = 1 THEN 1 ELSE 0)

\* Python's a | b on non-negative integers
BitOr(a, b) == a + b - BitAnd(a, b)

\* Python's a & ~b on non-negative integers
BitAndNot(a, b) == a - BitAnd(a, b)

RECURSIVE Digits(_)
\* the decimal digits of a non-negative integer, as character codes
Digits(n) ==
    IF n < 10 THEN << 48 + n >>
    ELSE Append(Digits(n \div 10), 48 + (n % 10))

\* Python's str(n) of an integer, as character codes
Str(n) == IF n < 0 THEN << 45 >> \o Digits(0 - n) ELSE Digits(n)

\* Python's c.encode('cp437', 'ignore') of one character: ASCII is kept,
\* a character of the code page gets its code page byte, any other is dropped
Cp437(c) ==
    IF c < 128 THEN << c >>
    ELSE IF c = 233 THEN << 130 >>
    ELSE IF c = 163 THEN << 156 >>
    ELSE << >>

---------------------------------------------------------------------------
(* The gate and the transport *)

Ok(s) == s.raised = "none"

Raise(s, e) == IF Ok(s) THEN [s EXCEPT !.raised = e] ELSE s

\* self.<f> = v
Assign(s, f, v) == IF Ok(s) THEN [s EXCEPT ![f] = v] ELSE s

\* one gate event: what happened, its value, the clock and resume_time then
Ev(k, v, s) == [k |-> k, v |-> v, now |-> s.now, rt |-> s.resume_time]

timeout_set(s, x) ==
    IF Ok(s)
    THEN [s EXCEPT !.resume_time = s.now + x,
                   !.log = Append(@, Ev("set", x, s))]
    ELSE s

timeout_wait(s) ==
    IF Ok(s)
    THEN [s EXCEPT !.now = IF ~s.write_to_stdout /\ s.now < s.resume_time
                           THEN s.resume_time ELSE @,
                   !.log = Append(@, Ev("wait", 0, s))]
    ELSE s

\* time.sleep(x)
sleep_for(s, x) == IF Ok(s) THEN [s EXCEPT !.now = @ + x] ELSE s

\* a Serial.write that tries a second time when the link has failed
serial_write_retry(s, bs) ==
    IF ~Ok(s) THEN s
    ELSE IF s.link = 0
    THEN Raise([s EXCEPT !.log = @ \o << Ev("fail", Len(bs), s),
                                         Ev("fail", Len(bs), s) >>], "IOError")
    ELSE [s EXCEPT !.out = @ \o bs,
                   !.log = @ \o [i \in 1 .. Len(bs) |-> Ev("byte", bs[i], s)],
                   !.link = IF @ > 0 THEN @ - 1 ELSE @]

\* Serial.write of one byte string: the transport receives the bytes now,
\* or the link has failed and the call raises SerialException (an IOError)
serial_write(s, bs) ==
    IF ~Ok(s) THEN s
    ELSE IF s.link = 0
    THEN Raise([s EXCEPT !.log = Append(@, Ev("fail", Len(bs), s))], "IOError")
    ELSE [s EXCEPT !.out = @ \o bs,
                   !.log = @ \o [i \in 1 .. Len(bs) |-> Ev("byte", bs[i], s)],
                   !.link = IF @ > 0 THEN @ - 1 ELSE @]

\* sys.stdout.write of a string
stdout_write(s, cs) ==
    IF Ok(s) THEN [s EXCEPT !.out = @ \o cs] ELSE s

RECURSIVE send_args(_, _)
\* for arg in args: super().write(bytes([arg]))
send_args(s, args) ==
    IF args = << >> \/ ~Ok(s) THEN s
    ELSE IF Head(args) \in 0 .. 255
         THEN send_args(serial_write(s, << Head(args) >>), Tail(args))
         ELSE Raise(s, "ValueError")

RECURSIVE StrAll(_)
\* str(arg) of each arg, one after the other (halving keeps the nesting low)
StrAll(args) ==
    IF args = << >> THEN << >>
    ELSE IF Len(args) = 1 THEN Str(args[1])
    ELSE LET h == Len(args) \div 2
         IN StrAll(SubSeq(args, 1, h)) \o StrAll(SubSeq(args, h + 1, Len(args)))

\* for arg in args: sys.stdout.write(str(arg))
print_args(s, args) == stdout_write(s, StrAll(args))

write_bytes(s, args) ==
    IF s.write_to_stdout
    THEN print_args(s, args)
    ELSE send_args(timeout_set(timeout_wait(s), Len(args) * s.byte_time), args)

\* a pass of the loop that times a blank line as a text line
write_char_blank_as_text(s, c) ==
    IF s.write_to_stdout THEN stdout_write(s, << c >>)
    ELSE IF c = XOFF THEN s
    ELSE
      LET s1 == serial_write(timeout_wait(s), Cp437(c))
          boundary == (c = NL) \/ (s1.column = s1.max_column)
          blank == s1.prev_byte = NL
          d == IF ~boundary THEN s1.byte_time
               ELSE s1.byte_time
                    + s1.char_height * s1.dot_print_time
                    + s1.line_spacing * s1.dot_feed_time
          s2 == IF ~boundary THEN Assign(s1, "column", s1.column + 1)
                ELSE IF blank THEN s1
                ELSE Assign(s1, "column", 0)
          c2 == IF boundary /\ ~blank THEN NL ELSE c
      IN Assign(timeout_set(s2, d), "prev_byte", c2)

\* one pass of the loop of write(): the character data[i]
write_char(s, c) ==
    IF s.write_to_stdout THEN stdout_write(s, << c >>)
    ELSE IF c = XOFF THEN s
    ELSE
      LET s1 == serial_write(timeout_wait(s), Cp437(c))
          boundary == (c = NL) \/ (s1.column = s1.max_column)
          blank == s1.prev_byte = NL
          d == IF ~boundary THEN s1.byte_time
               ELSE IF blank
                    THEN s1.byte_time
                         + (s1.char_height + s1.line_spacing) * s1.dot_feed_time
                    ELSE s1.byte_time
                         + s1.char_height * s1.dot_print_time
                         + s1.line_spacing * s1.dot_feed_time
          s2 == IF ~boundary THEN Assign(s1, "column", s1.column + 1)
                ELSE IF blank THEN s1
                ELSE Assign(s1, "column", 0)
          c2 == IF boundary /\ ~blank THEN NL ELSE c
      IN Assign(timeout_set(s2, d), "prev_byte", c2)

RECURSIVE write(_, _)
write(s, data) ==
    IF data = << >> \/ ~Ok(s) THEN s
    ELSE write(write_char(s, Head(data)), Tail(data))

reset(s) ==
    LET s1 == write_bytes(s, << 27, 64 >>)
        s2 == Assign(s1, "prev_byte", NL)
        s3 == Assign(s2, "column", 0)
        s4 == Assign(s3, "max_column", 32)
        s5 == Assign(s4, "char_height", 24)
        s6 == Assign(s5, "line_spacing", 6)
        s7 == Assign(s6, "barcode_height", 50)
    IN IF s7.firmware_version >= 264
       THEN write_bytes(write_bytes(write_bytes(s7, << 27, 68 >>),
                                    << 4, 8, 12, 16 >>),
                        << 20, 24, 28, 0 >>)
       ELSE s7

RECURSIVE wake_loop(_, _)
\* for i in range(n): write_bytes(27); timeout_set(0.1)
wake_loop(s, n) ==
    IF n = 0 THEN s
    ELSE wake_loop(timeout_set(write_bytes(s, << 27 >>), 100000), n - 1)

wake(s) ==
    LET s1 == write_bytes(timeout_set(s, 0), << 255 >>)
    IN IF s1.firmware_version >= 264
       THEN write_bytes(sleep_for(s1, 50000), << 27, 118, 0 >>)
       ELSE wake_loop(s1, 10)

---------------------------------------------------------------------------
(* Settings and character commands *)

set_times(s, p, f) ==
    Assign(Assign(s, "dot_print_time", p), "dot_feed_time", f)

begin(s, heat_time) == write_bytes(s, << 27, 55, 11, heat_time, 40 >>)

test_page(s) ==
    timeout_set(write_bytes(s, << 18, 84 >>),
                s.dot_print_time * 24 * 26 + s.dot_feed_time * (6 * 26 + 30))

set_barcode_height(s, val) ==
    LET v == IF val < 1 THEN 1 ELSE val
    IN write_bytes(Assign(s, "barcode_height", v), << 29, 104, v >>)

write_print_mode(s) == write_bytes(s, << 27, 33, s.print_mode >>)

\* the tail shared by set_print_mode and unset_print_mode: char_height and
\* max_column follow the mode bits
mode_dimensions(s) ==
    LET s1 == Assign(s, "char_height",
                     IF BitAnd(s.print_mode, DOUBLE_HEIGHT_MASK) # 0 THEN 48 ELSE 24)
    IN Assign(s1, "max_column",
              IF BitAnd(s.print_mode, DOUBLE_WIDTH_MASK) # 0 THEN 16 ELSE 32)

\* a mode setter that flips the bit instead of setting it
set_print_mode_flip(s, mask) ==
    mode_dimensions(write_print_mode(
        Assign(s, "print_mode",
               s.print_mode + mask - 2 * BitAnd(s.print_mode, mask))))

set_print_mode(s, mask) ==
    mode_dimensions(write_print_mode(
        Assign(s, "print_mode", BitOr(s.print_mode, mask))))

unset_print_mode(s, mask) ==
    mode_dimensions(write_print_mode(
        Assign(s, "print_mode", BitAndNot(s.print_mode, mask))))

normal(s) == write_print_mode(Assign(s, "print_mode", 0))

inverseOn(s) ==
    IF s.firmware_version >= 268
    THEN write_bytes(s, << 29, 66, 1 >>)
    ELSE set_print_mode(s, INVERSE_MASK)

inverse_off(s) ==
    IF s.firmware_version >= 268
    THEN write_bytes(s, << 29, 66, 0 >>)
    ELSE unset_print_mode(s, INVERSE_MASK)

\* the names under which ThermalPrinter defines inverse printing
InverseMethods == {"inverseOn", "inverse_off"}

\* p.<name>() as the tag adapter's "Inverse text" tag calls it: the attribute
\* is looked up on the printer object, then called
call_inverse(s, name) ==
    IF name \notin InverseMethods THEN Raise(s, "AttributeError")
    ELSE IF name = "inverseOn" THEN inverseOn(s)
    ELSE inverse_off(s)

upside_down_on(s) == set_print_mode(s, UPDOWN_MASK)

upside_down_off(s) == unset_print_mode(s, UPDOWN_MASK)

double_height_on(s) == set_print_mode(s, DOUBLE_HEIGHT_MASK)

double_height_off(s) == unset_print_mode(s, DOUBLE_HEIGHT_MASK)

double_width_on(s) == set_print_mode(s, DOUBLE_WIDTH_MASK)

double_width_off(s) == unset_print_mode(s, DOUBLE_WIDTH_MASK)

strike_on(s) == set_print_mode(s, STRIKE_MASK)

strike_off(s) == unset_print_mode(s, STRIKE_MASK)

bold_on(s) == set_print_mode(s, BOLD_MASK)

bold_off(s) == unset_print_mode(s, BOLD_MASK)

\* value.upper() of a one-letter string: a lower case letter becomes upper case
Upper(c) == IF c \in 97 .. 122 THEN c - 32 ELSE c

\* a justify that starts a new line
justify_new_line(s, value) ==
    LET c == Upper(value)
        pos == IF c = 67 THEN 1 ELSE IF c = 82 THEN 2 ELSE 0
        s1 == write_bytes(s, << 27, 97, pos >>)
    IN Assign(Assign(s1, "prev_byte", NL), "column", 0)

justify(s, value) ==
    LET c == Upper(value)
        pos == IF c = 67 THEN 1 ELSE IF c = 82 THEN 2 ELSE 0
    IN write_bytes(s, << 27, 97, pos >>)

RECURSIVE feed_loop(_, _)
\* while x > 0: self.write('\n'); x -= 1
feed_loop(s, x) ==
    IF x > 0 /\ Ok(s) THEN feed_loop(write(s, << NL >>), x - 1) ELSE s

\* a feed that sends the feed command whatever the firmware
feed_by_command(s, x) ==
    LET s1 == write_bytes(s, << 27, 100, x >>)
        s2 == timeout_set(s1, s1.dot_feed_time * s1.char_height)
    IN Assign(Assign(s2, "prev_byte", NL), "column", 0)

feed(s, x) ==
    IF s.firmware_version >= 264
    THEN LET s1 == write_bytes(s, << 27, 100, x >>)
             s2 == timeout_set(s1, s1.dot_feed_time * s1.char_height)
         IN Assign(Assign(s2, "prev_byte", NL), "column", 0)
    ELSE feed_loop(s, x)

feed_rows(s, rows) ==
    LET s1 == write_bytes(s, << 27, 74, rows >>)
        s2 == timeout_set(s1, rows * s1.dot_feed_time)
    IN Assign(Assign(s2, "prev_byte", NL), "column", 0)

flush(s) == write_bytes(s, << 12 >>)

\* a size setter that keeps the narrower of its own width and the mode's
set_size_keep_mode_width(s, value) ==
    LET c == Upper(value)
        size == IF c = 76 THEN 17 ELSE IF c = 77 THEN 1 ELSE 0
        s1 == Assign(s, "char_height", IF c = 76 \/ c = 77 THEN 48 ELSE 24)
        s2 == Assign(s1, "max_column",
                     IF c = 76 \/ BitAnd(s.print_mode, DOUBLE_WIDTH_MASK) # 0
                     THEN 16 ELSE 32)
    IN write_bytes(s2, << 29, 33, size >>)

set_size(s, value) ==
    LET c == Upper(value)
        size == IF c = 76 THEN 17 ELSE IF c = 77 THEN 1 ELSE 0
        s1 == Assign(s, "char_height", IF c = 76 \/ c = 77 THEN 48 ELSE 24)
        s2 == Assign(s1, "max_column", IF c = 76 THEN 16 ELSE 32)
    IN write_bytes(s2, << 29, 33, size >>)

underline_on(s, weight) ==
    write_bytes(s, << 27, 45, IF weight > 2 THEN 2 ELSE weight >>)

underline_off(s) == write_bytes(s, << 27, 45, 0 >>)

offline(s) == write_bytes(s, << 27, 61, 0 >>)

online(s) == write_bytes(s, << 27, 61, 1 >>)

sleep_after(s, seconds) ==
    IF s.firmware_version >= 264
    THEN write_bytes(s, << 27, 56, seconds % 256, seconds \div 256 >>)
    ELSE write_bytes(s, << 27, 56, seconds >>)

sleep(s) == sleep_after(s, 1)

\* Serial.read(size) on this driver: on the pass-through sink Serial.__init__
\* was never run and the port object has no state to read from
serial_read(s, size) ==
    IF ~Ok(s) THEN s
    ELSE IF s.write_to_stdout THEN Raise(s, "AttributeError")
    ELSE [s EXCEPT !.log = Append(@, Ev("read", size, s))]

\* a paper check that takes the set bit for paper
has_paper_bit_set(s, rx) ==
    LET s1 == write_bytes(s, IF s.firmware_version >= 264
                             THEN << 27, 118, 0 >> ELSE << 29, 114, 0 >>)
        s2 == serial_read(s1, 1)
        s3 == IF Len(rx) # 1 THEN Raise(s2, "TypeError") ELSE s2
    IN Assign(s3, "ret", IF BitAnd(rx[1], 4) # 0 THEN "True" ELSE "False")

\* rx is what read(1) returns: one byte, or none when the read timed out
\* (ord() of an empty string raises TypeError)
has_paper(s, rx) ==
    LET s1 == write_bytes(s, IF s.firmware_version >= 264
                             THEN << 27, 118, 0 >> ELSE << 29, 114, 0 >>)
        s2 == serial_read(s1, 1)
        s3 == IF Len(rx) # 1 THEN Raise(s2, "TypeError") ELSE s2
    IN Assign(s3, "ret", IF BitAnd(rx[1], 4) = 0 THEN "True" ELSE "False")

set_line_height(s, val) ==
    LET v == IF val < 24 THEN 24 ELSE val
    IN write_bytes(Assign(s, "line_spacing", v - 24), << 27, 51, v >>)

set_charset(s, val) ==
    write_bytes(s, << 27, 82, IF val > 15 THEN 15 ELSE val >>)

set_code_page(s, val) ==
    write_bytes(s, << 27, 116, IF val > 47 THEN 47 ELSE val >>)

tab(s) ==
    LET s1 == write_bytes(s, << 9 >>)
    IN Assign(s1, "column", BitAnd(s1.column + 4, 252))

set_char_spacing(s, spacing) == write_bytes(s, << 27, 32, spacing >>)

---------------------------------------------------------------------------
(* Bitmap subprotocol.  The loops carry the buffer index i beside the      *)
(* driver record: ls = [s |-> driver, i |-> index].                        *)

\* a row loop that does not skip the clipped remainder of a row
bitmap_index_no_skip(i, k, row_bytes, row_bytes_clipped) == i + k

\* the buffer index of the k-th byte (k = 0, 1, ...) that the two inner
\* loops of print_bitmap read when they start at index i: row k div clipped,
\* byte k mod clipped of that row
bitmap_index(i, k, row_bytes, row_bytes_clipped) ==
    i + (k \div row_bytes_clipped) * row_bytes + (k % row_bytes_clipped)

\* for y in range(n): for x in range(row_bytes_clipped): write bitmap[i];
\* i += 1; and after each row i += row_bytes - row_bytes_clipped.  The loops
\* are unrolled: the indices read are known beforehand, and the first one
\* beyond the buffer raises IndexError after the bytes before it were written
bitmap_rows(ls, bitmap, n, row_bytes, row_bytes_clipped) ==
    IF ~Ok(ls.s) THEN ls
    ELSE
      LET total == n * row_bytes_clipped
          good == Cardinality({k \in 0 .. total - 1 :
                     bitmap_index(ls.i, k, row_bytes, row_bytes_clipped) < Len(bitmap)})
          data == [k \in 1 .. good |->
                     bitmap[bitmap_index(ls.i, k - 1, row_bytes, row_bytes_clipped) + 1]]
          sent == IF ls.s.write_to_stdout
                  THEN print_args(ls.s, data)
                  ELSE serial_write(ls.s, data)
      IN IF good < total
         THEN [s |-> Raise(sent, "IndexError"),
               i |-> bitmap_index(ls.i, good, row_bytes, row_bytes_clipped)]
         ELSE [s |-> sent, i |-> ls.i + n * row_bytes]

RECURSIVE bitmap_chunks(_, _, _, _, _, _, _)
\* for rowStart in range(rowStart, h, max_chunk_height): one chunk
bitmap_chunks(ls, bitmap, h, rowStart, max_chunk_height, row_bytes, row_bytes_clipped) ==
    IF rowStart >= h \/ ~Ok(ls.s) THEN ls
    ELSE LET chunk_height == IF h - rowStart > max_chunk_height
                             THEN max_chunk_height ELSE h - rowStart
             hd == [ls EXCEPT !.s = write_bytes(@, << 18, 42, chunk_height,
                                                     row_bytes_clipped >>)]
             r == bitmap_rows(hd, bitmap, chunk_height, row_bytes, row_bytes_clipped)
             t == [r EXCEPT !.s = timeout_set(@, chunk_height * r.s.dot_print_time)]
         IN bitmap_chunks(t, bitmap, h, rowStart + max_chunk_height,
                          max_chunk_height, row_bytes, row_bytes_clipped)

print_bitmap(s, w, h, bitmap, laa_t) ==
    LET row_bytes == (w + 7) \div 8
        row_bytes_clipped == IF row_bytes >= 48 THEN 48 ELSE row_bytes
        max_chunk_height == IF laa_t THEN 1 ELSE 255
        r == bitmap_chunks([s |-> s, i |-> 0], bitmap, h, 0, max_chunk_height,
                           row_bytes, row_bytes_clipped)
    IN Assign(r.s, "prev_byte", NL)

---------------------------------------------------------------------------
(* Barcode subprotocol *)

UPC_A == 0
UPC_E == 1
EAN13 == 2
EAN8 == 3
CODE39 == 4
I25 == 5
CODEBAR == 6
CODE93 == 7
CODE128 == 8
CODE11 == 9
MSI == 10
ITF == 11
CODABAR == 12

\* barcode type codes for firmware_version >= 264
new_dict ==
    (UPC_A :> 65) @@ (UPC_E :> 66) @@ (EAN13 :> 67) @@ (EAN8 :> 68) @@
    (CODE39 :> 69) @@ (ITF :> 70) @@ (CODABAR :> 71) @@ (CODE93 :> 72) @@
    (CODE128 :> 73) @@ (I25 :> -1) @@ (CODEBAR :> -1) @@ (CODE11 :> -1) @@
    (MSI :> -1)

\* barcode type codes for firmware_version < 264
old_dict ==
    (UPC_A :> 0) @@ (UPC_E :> 1) @@ (EAN13 :> 2) @@ (EAN8 :> 3) @@
    (CODE39 :> 4) @@ (I25 :> 5) @@ (CODEBAR :> 6) @@ (CODE93 :> 7) @@
    (CODE128 :> 8) @@ (CODE11 :> 9) @@ (MSI :> 10) @@ (ITF :> -1) @@
    (CODABAR :> -1)

\* Python's c.encode("utf-8") of one character of the basic plane
Utf8(c) ==
    IF c < 128 THEN << c >>
    ELSE IF c < 2048 THEN << 192 + (c \div 64), 128 + (c % 64) >>
    ELSE << 224 + (c \div 4096), 128 + ((c \div 64) % 64), 128 + (c % 64) >>

RECURSIVE Utf8Str(_)
\* Python's text.encode("utf-8", "ignore")
Utf8Str(text) ==
    IF text = << >> THEN << >> ELSE Utf8(Head(text)) \o Utf8Str(Tail(text))

\* Serial.write(n) of an int: pyserial sends to_bytes(n) = bytes(bytearray(n)),
\* which is n zero bytes
serial_write_int(s, n) == serial_write(s, [i \in 1 .. n |-> 0])

\* Serial.write(c) of a str: pyserial's to_bytes refuses unicode strings
serial_write_str(s, c) == Raise(s, "TypeError")

RECURSIVE barcode_chars(_, _, _)
\* for i in range(n): write text[i]
barcode_chars(s, text, n) ==
    IF n = 0 \/ ~Ok(s) THEN s
    ELSE barcode_chars(IF s.write_to_stdout
                       THEN stdout_write(s, << Head(text) >>)
                       ELSE serial_write_str(s, Head(text)),
                       Tail(text), n - 1)

\* the part of print_barcode after the type code: the text
barcode_text(s, text) ==
    IF s.firmware_version >= 264
    THEN LET n == IF Len(text) > 255 THEN 255 ELSE Len(text)
         IN IF s.write_to_stdout
            THEN barcode_chars(stdout_write(s, Str(n)), text, n)
            ELSE barcode_chars(serial_write_int(s, n), text, n)
    ELSE IF s.write_to_stdout
         THEN stdout_write(s, text)
         ELSE serial_write(s, Utf8Str(text))

\* a barcode printer that feeds before it looks the type up
print_barcode_feed_first(s, text, type) ==
    LET n == IF s.firmware_version >= 264 THEN new_dict[type] ELSE old_dict[type]
        s1 == feed(s, 1)
    IN IF n = -1 THEN s1
       ELSE
         LET s2 == write_bytes(s1, << 29, 72, 2, 29, 119, 3, 29, 107, n >>)
             s3 == timeout_wait(s2)
             s4 == timeout_set(s3, (s3.barcode_height + 40) * s3.dot_print_time)
             s5 == barcode_text(s4, text)
         IN Assign(s5, "prev_byte", NL)

print_barcode(s, text, type) ==
    IF type \notin DOMAIN new_dict THEN Raise(s, "KeyError")
    ELSE
      LET n == IF s.firmware_version >= 264 THEN new_dict[type] ELSE old_dict[type]
      IN IF n = -1 THEN s
         ELSE
           LET s1 == feed(s, 1)
               s2 == write_bytes(s1, << 29, 72, 2, 29, 119, 3, 29, 107, n >>)
               s3 == timeout_wait(s2)
               s4 == timeout_set(s3, (s3.barcode_height + 40) * s3.dot_print_time)
               s5 == barcode_text(s4, text)
           IN Assign(s5, "prev_byte", NL)

---------------------------------------------------------------------------
(* Compound operations *)

RECURSIVE print(_, _)
\* for arg in args: self.write(str(arg)), the arguments being strings
print(s, args) ==
    IF args = << >> \/ ~Ok(s) THEN s
    ELSE print(write(s, Head(args)), Tail(args))

set_default(s) ==
    LET s1 == online(s)
        s2 == justify(s1, 76)
        s3 == inverse_off(s2)
        s4 == double_height_off(s3)
        s5 == set_line_height(s4, 30)
        s6 == bold_off(s5)
        s7 == underline_off(s6)
        s8 == set_barcode_height(s7, 50)
        s9 == set_size(s8, 115)
    IN set_code_page(set_charset(s9, 0), 0)

\* "Hello world!"
HelloWorld == << 72, 101, 108, 108, 111, 32, 119, 111, 114, 108, 100, 33 >>

test(s) == feed(write(s, HelloWorld), 2)

---------------------------------------------------------------------------
(* Construction *)

\* the class attributes, before __init__ has run; the clock starts at 0
ClassDefaults ==
    [resume_time |-> 0, byte_time |-> 0, dot_print_time |-> 0,
     dot_feed_time |-> 0, prev_byte |-> NL, column |-> 0, max_column |-> 32,
     char_height |-> 24, line_spacing |-> 8, barcode_height |-> 50,
     print_mode |-> 0, firmware_version |-> DEFAULT_FIRMWARE,
     write_to_stdout |-> FALSE,
     now |-> 0, out |-> << >>, log |-> << >>, raised |-> "none",
     ret |-> "None", link |-> -1]

\* ThermalPrinter(port, baudrate, firmware=..., heattime=...) when to_stdout is
\* FALSE, ThermalPrinter(firmware=...) when it is TRUE
construct(to_stdout, baudrate, firmware, heattime) ==
    LET s0 == [ClassDefaults EXCEPT !.write_to_stdout = to_stdout,
                                    !.firmware_version = firmware]
    IN IF ~to_stdout
       THEN LET s1 == Assign(s0, "byte_time", (11 * MICROS) \div baudrate)
                s2 == timeout_set(s1, 500000)
                s3 == reset(wake(s2))
                s4 == write_bytes(s3, << 27, 55, 11, heattime, 40 >>)
                s5 == write_bytes(s4, << 18, 35, BitOr(2 * 32, 10) >>)
            IN Assign(Assign(s5, "dot_print_time", 30000), "dot_feed_time", 2100)
       ELSE reset(s0)

---------------------------------------------------------------------------
(* Inputs *)

\* firmware versions: one below 264, one in 264..267, one from 268 on
Firmwares == {263, 264, DEFAULT_FIRMWARE}

\* a run of n letters 'a'
Run(n) == [i \in 1 .. n |-> 97]

RunLens == {1, 20, 32, MaxRun}

\* texts for write(): a newline, a short line, a text holding XOFF, a text
\* of one cp437 character and one character outside cp437, and the runs
Texts ==
    {<< NL >>, << 97, NL >>, << 97, XOFF, 98 >>, << 233, 8364 >>}
    \cup {Run(n) : n \in RunLens}

\* letters for set_size: 'L', 'M', 'S' and a lower case 'l'
Sizes == {76, 77, 83, 108}

\* letters for justify: 'L', 'C', 'R'
Justifications == {76, 67, 82}

\* a buffer of n bytes whose value tells the position
Pattern(n) == [i \in 1 .. n |-> (i - 1) % 251]

\* bitmaps: narrow, wider than the head (400 pixels), taller than a chunk
\* (256 rows), empty; in chunks and line at a time
Bitmaps ==
    {[w |-> 8, h |-> 1, laa_t |-> FALSE],
     [w |-> 12, h |-> 3, laa_t |-> FALSE],
     [w |-> 12, h |-> 3, laa_t |-> TRUE],
     [w |-> 400, h |-> 10, laa_t |-> FALSE],
     [w |-> 400, h |-> 2, laa_t |-> TRUE],
     [w |-> 8, h |-> 256, laa_t |-> FALSE],
     [w |-> 8, h |-> 0, laa_t |-> FALSE]}

BarcodeTexts == {<< 49, 50 >>}

BarcodeTypes == UPC_A .. CODABAR

---------------------------------------------------------------------------
(* The print daemon's data (thermald.py) *)

\* HTTP requests the daemon receives
MaxRequests == 2
\* ThermalPrinter objects the daemon constructs
MaxPrinters == 3

PrintTask(id, format_type) == [id |-> id, format_type |-> format_type]

\* stop_sentinel = object()
stop_sentinel == [id |-> 0, format_type |-> "stop"]

\* the worker holds no task
NoTask == [id |-> 0, format_type |-> "none"]

\* no driver call made yet
NoCall == [what |-> "none", on |-> 0, job |-> 0, res |-> "none"]

\* the driver calls a job of the format makes, in program order, and the
\* name they are made on.  A "tag" job of one line "*a" goes through the tag
\* adapter: on_open, the body, the newline, on_close.  print_image computes
\* row_bytes = (width + 7) / 8, a float, and bytearray(row_bytes * height)
\* raises TypeError before anything is sent.
JobCalls(format_type) ==
    CASE format_type = "tag" ->
           << [on |-> "tag_adapter.printer", what |-> "bold_on"],
              [on |-> "tag_adapter.printer", what |-> "print"],
              [on |-> "tag_adapter.printer", what |-> "print"],
              [on |-> "tag_adapter.printer", what |-> "bold_off"] >>
      [] format_type \in {"image-file", "image-data"} ->
           << [on |-> "printer", what |-> "print_image"] >>
      [] OTHER ->
           << [on |-> "printer", what |-> "print"] >>

\* the daemon before main() has started the worker; --stdout as given
DaemonAtMain(stdout) ==
    /\ args_stdout = stdout
    /\ device = TRUE
    /\ serving = "no"
    /\ requests = [r \in 1 .. MaxRequests |-> "waiting"]
    /\ print_queue = << >>
    /\ pc = "main"
    /\ task = NoTask
    /\ step = 0
    /\ printer = 0
    /\ tag_printer = 0
    /\ created = 0
    /\ inside = {}
    /\ callers = {}
    /\ last = NoCall
    /\ failed_at = 0
    /\ handled = << >>
    /\ died = "none"

---------------------------------------------------------------------------
(* State machine *)

\* the driver as the coming operation finds it
Start ==
    [resume_time |-> resume_time,
     byte_time |-> byte_time,
     dot_print_time |-> dot_print_time,
     dot_feed_time |-> dot_feed_time,
     prev_byte |-> prev_byte,
     column |-> column,
     max_column |-> max_column,
     char_height |-> char_height,
     line_spacing |-> line_spacing,
     barcode_height |-> barcode_height,
     print_mode |-> print_mode,
     firmware_version |-> firmware_version,
     write_to_stdout |-> write_to_stdout,
     now |-> now,
     out |-> << >>, log |-> << >>, raised |-> "none",
     ret |-> "None", link |-> link]

\* the caller, holding no call's result, called the operation name with
\* argument a; it ran and left the driver as s
Done(name, a, s) ==
    /\ op = "idle"
    /\ nops < MaxOps
    /\ nops' = nops + 1
    /\ op' = name
    /\ arg' = a
    /\ pre' = Start
    /\ resume_time' = s.resume_time
    /\ byte_time' = s.byte_time
    /\ dot_print_time' = s.dot_print_time
    /\ dot_feed_time' = s.dot_feed_time
    /\ prev_byte' = s.prev_byte
    /\ column' = s.column
    /\ max_column' = s.max_column
    /\ char_height' = s.char_height
    /\ line_spacing' = s.line_spacing
    /\ barcode_height' = s.barcode_height
    /\ print_mode' = s.print_mode
    /\ firmware_version' = s.firmware_version
    /\ write_to_stdout' = s.write_to_stdout
    /\ now' = s.now
    /\ out' = s.out
    /\ log' = s.log
    /\ raised' = s.raised
    /\ ret' = s.ret
    /\ link' = s.link
    /\ UNCHANGED daemon_vars

\* the state after construction, the constructor being the call on record;
\* the daemon, whose --stdout flag chooses the transport, has not started
Init ==
    \E to_stdout \in BOOLEAN, firmware \in Firmwares :
      LET s == construct(to_stdout, DEFAULT_BAUDRATE, firmware, default_heat_time)
      IN /\ op = "init"
         /\ arg = << >>
         /\ pre = ClassDefaults
         /\ nops = 0
         /\ resume_time = s.resume_time
         /\ byte_time = s.byte_time
         /\ dot_print_time = s.dot_print_time
         /\ dot_feed_time = s.dot_feed_time
         /\ prev_byte = s.prev_byte
         /\ column = s.column
         /\ max_column = s.max_column
         /\ char_height = s.char_height
         /\ line_spacing = s.line_spacing
         /\ barcode_height = s.barcode_height
         /\ print_mode = s.print_mode
         /\ firmware_version = s.firmware_version
         /\ write_to_stdout = s.write_to_stdout
         /\ now = s.now
         /\ out = s.out
         /\ log = s.log
         /\ raised = s.raised
         /\ ret = s.ret
         /\ link = s.link
         /\ DaemonAtMain(to_stdout)

\* the caller is done with the result of the call: the record of the call is
\* dropped and the clock's origin moves to the present
Return ==
    /\ op # "idle"
    /\ op' = "idle"
    /\ arg' = << >>
    /\ pre' = ClassDefaults
    /\ out' = << >>
    /\ log' = << >>
    /\ raised' = "none"
    /\ ret' = "None"
    /\ now' = 0
    /\ resume_time' = resume_time - now
    /\ UNCHANGED << byte_time, dot_print_time, dot_feed_time,
                    prev_byte, column, max_column, char_height, line_spacing,
                    barcode_height, print_mode, firmware_version,
                    write_to_stdout, link, nops >>
    /\ UNCHANGED daemon_vars

\* the caller does something else until the busy period has passed
PassTime ==
    /\ op = "idle"
    /\ now < resume_time
    /\ resume_time' = now
    /\ UNCHANGED << byte_time, dot_print_time, dot_feed_time,
                    prev_byte, column, max_column, char_height, line_spacing,
                    barcode_height, print_mode, firmware_version,
                    write_to_stdout, now, out, log, raised, ret, link,
                    op, arg, pre, nops >>
    /\ UNCHANGED daemon_vars

Write == \E data \in Texts : Done("write", data, write(Start, data))

Reset == Done("reset", << >>, reset(Start))

Wake == Done("wake", << >>, wake(Start))

SetBarcodeHeight ==
    \E val \in {0, 100} :
      Done("set_barcode_height", val, set_barcode_height(Start, val))

PrintBarcode ==
    \E text \in BarcodeTexts, type \in BarcodeTypes :
      Done("print_barcode", [text |-> text, type |-> type],
           print_barcode(Start, text, type))

Normal == Done("normal", << >>, normal(Start))

InverseOn == Done("inverseOn", << >>, inverseOn(Start))

InverseOff == Done("inverse_off", << >>, inverse_off(Start))

\* on_open of the tag adapter's "Inverse text" tag: p.inverse_on()
TagInverseOn == Done("inverse_on", << >>, call_inverse(Start, "inverse_on"))

\* on_close of the tag adapter's "Inverse text" tag: p.inverse_off()
TagInverseOff == Done("inverse_off", << >>, call_inverse(Start, "inverse_off"))

UpsideDownOn == Done("upside_down_on", << >>, upside_down_on(Start))

UpsideDownOff == Done("upside_down_off", << >>, upside_down_off(Start))

DoubleHeightOn == Done("double_height_on", << >>, double_height_on(Start))

DoubleHeightOff == Done("double_height_off", << >>, double_height_off(Start))

DoubleWidthOn == Done("double_width_on", << >>, double_width_on(Start))

DoubleWidthOff == Done("double_width_off", << >>, double_width_off(Start))

StrikeOn == Done("strike_on", << >>, strike_on(Start))

StrikeOff == Done("strike_off", << >>, strike_off(Start))

BoldOn == Done("bold_on", << >>, bold_on(Start))

BoldOff == Done("bold_off", << >>, bold_off(Start))

Justify ==
    \E value \in Justifications : Done("justify", value, justify(Start, value))

Feed == \E x \in {1, 2} : Done("feed", x, feed(Start, x))

FeedRows == \E rows \in {0, 30} : Done("feed_rows", rows, feed_rows(Start, rows))

SetSize == \E value \in Sizes : Done("set_size", value, set_size(Start, value))

PrintBitmap ==
    \E b \in Bitmaps :
      Done("print_bitmap", b,
           print_bitmap(Start, b.w, b.h, Pattern(((b.w + 7) \div 8) * b.h), b.laa_t))

\* status bytes the printer may answer with, and no answer
StatusAnswers == {<< >>, << 0 >>, << 4 >>, << 251 >>, << 255 >>}

HasPaper == \E rx \in StatusAnswers : Done("has_paper", rx, has_paper(Start, rx))

SetLineHeight ==
    \E val \in {20, 30} : Done("set_line_height", val, set_line_height(Start, val))

Tab == Done("tab", << >>, tab(Start))

SetTimes ==
    \E p \in {30000}, f \in {2100} :
      Done("set_times", [p |-> p, f |-> f], set_times(Start, p, f))

Begin == Done("begin", default_heat_time, begin(Start, default_heat_time))

TestPage == Done("test_page", << >>, test_page(Start))

Flush == Done("flush", << >>, flush(Start))

UnderlineOn ==
    \E weight \in {-1, 1, 3} : Done("underline_on", weight, underline_on(Start, weight))

UnderlineOff == Done("underline_off", << >>, underline_off(Start))

Offline == Done("offline", << >>, offline(Start))

Online == Done("online", << >>, online(Start))

Sleep == Done("sleep", << >>, sleep(Start))

SleepAfter ==
    \E seconds \in {1, 300} :
      Done("sleep_after", seconds, sleep_after(Start, seconds))

SetCharset == \E val \in {-1, 0, 16} : Done("set_charset", val, set_charset(Start, val))

SetCodePage ==
    \E val \in {-1, 0, 48} : Done("set_code_page", val, set_code_page(Start, val))

SetCharSpacing ==
    Done("set_char_spacing", 0, set_char_spacing(Start, 0))

PrintArgs ==
    \E args \in {<< << 97 >>, << NL >> >>} : Done("print", args, print(Start, args))

SetDefault == Done("set_default", << >>, set_default(Start))

Test == Done("test", << >>, test(Start))

Next ==
    \/ Return
    \/ PassTime
    \/ Write
    \/ Reset
    \/ Wake
    \/ SetBarcodeHeight
    \/ PrintBarcode
    \/ Normal
    \/ InverseOn
    \/ InverseOff
    \/ TagInverseOn
    \/ TagInverseOff
    \/ UpsideDownOn
    \/ UpsideDownOff
    \/ DoubleHeightOn
    \/ DoubleHeightOff
    \/ DoubleWidthOn
    \/ DoubleWidthOff
    \/ StrikeOn
    \/ StrikeOff
    \/ BoldOn
    \/ BoldOff
    \/ Justify
    \/ Feed
    \/ FeedRows
    \/ SetSize
    \/ PrintBitmap
    \/ HasPaper
    \/ SetLineHeight
    \/ Tab
    \/ SetTimes
    \/ Begin
    \/ TestPage
    \/ Flush
    \/ UnderlineOn
    \/ UnderlineOff
    \/ Offline
    \/ Online
    \/ Sleep
    \/ SleepAfter
    \/ SetCharset
    \/ SetCodePage
    \/ SetCharSpacing
    \/ PrintArgs
    \/ SetDefault
    \/ Test

\* Serial.write calls the link still accepts once it is about to fail
LinkCuts == {0, 2}

\* the serial link goes bad between two operations: after k more writes
\* every Serial.write raises
Unplug ==
    /\ op = "idle"
    /\ ~write_to_stdout
    /\ link = -1
    /\ \E k \in LinkCuts : link' = k
    /\ UNCHANGED << resume_time, byte_time, dot_print_time, dot_feed_time,
                    prev_byte, column, max_column, char_height, line_spacing,
                    barcode_height, print_mode, firmware_version,
                    write_to_stdout, now, out, log, raised, ret,
                    op, arg, pre, nops >>
    /\ UNCHANGED daemon_vars

FaultNext == Next \/ Unplug

Spec == Init /\ [][Next]_vars

\* the driver on a serial link that may fail
FaultSpec == Init /\ [][FaultNext]_vars

---------------------------------------------------------------------------
(* The print daemon (thermald.py): main(), the request handlers and the    *)
(* worker thread running print_loop().  The daemon's printers are told     *)
(* apart by the order of their construction (1, 2, ...); of a driver call  *)
(* the daemon sees only whether it raised, and a call that writes raises   *)
(* IOError exactly when the serial device is away.  The driver variables   *)
(* stay as construction left them.                                         *)

\* ThermalPrinter("/dev/serial0", 19200, timeout=5) opens the port and
\* writes to it; ThermalPrinter() writes to stdout
create_printer(stdout, dev) == IF stdout \/ dev THEN "ok" ELSE "IOError"

\* a driver operation that writes, called while the device is or is not there
driver_call(stdout, dev) == IF stdout \/ dev THEN "ok" ELSE "IOError"

\* main(): the worker thread is started, then the server serves
Main ==
    /\ pc = "main"
    /\ pc' = "create"
    /\ serving' = "yes"
    /\ UNCHANGED << args_stdout, device, requests, print_queue, task, step,
                    printer, tag_printer, created, inside, callers, last,
                    failed_at, handled, died >>
    /\ UNCHANGED driver_vars

\* main(): the server has returned, the sentinel is put on the queue
Shutdown ==
    /\ serving = "yes"
    /\ serving' = "over"
    /\ print_queue' = Append(print_queue, stop_sentinel)
    /\ UNCHANGED << args_stdout, device, requests, pc, task, step,
                    printer, tag_printer, created, inside, callers, last,
                    failed_at, handled, died >>
    /\ UNCHANGED driver_vars

\* a request handler has answered request r and put the tasks on the queue
Answered(r, tasks) ==
    /\ serving = "yes"
    /\ requests[r] = "waiting"
    /\ requests' = [requests EXCEPT ![r] = "answered"]
    /\ print_queue' = print_queue \o tasks
    /\ UNCHANGED << args_stdout, device, serving, pc, task, step,
                    printer, tag_printer, created, last,
                    failed_at, handled, died >>
    /\ UNCHANGED driver_vars

\* a handler that prints the body itself before it queues the task
AddPrintTaskPrinting ==
    \E r \in 1 .. MaxRequests, format_type \in {"plain", "tag", "html"} :
      /\ Answered(r, IF format_type \in {"plain", "tag"}
                     THEN << PrintTask(r, format_type) >> ELSE << >>)
      /\ inside' = inside \cup {"handler"}
      /\ callers' = callers \cup {"handler"}

\* POST /print
AddPrintTask ==
    \E r \in 1 .. MaxRequests, format_type \in {"plain", "tag", "html"} :
      /\ Answered(r, IF format_type \in {"plain", "tag"}
                     THEN << PrintTask(r, format_type) >> ELSE << >>)
      /\ UNCHANGED << inside, callers >>

\* POST /print-image
AddImagePrintTask ==
    \E r \in 1 .. MaxRequests, has_file \in BOOLEAN :
      /\ Answered(r, IF has_file
                     THEN << PrintTask(r, "image-file") >> ELSE << >>)
      /\ UNCHANGED << inside, callers >>

\* POST /print-image-url
AddImagePrintUrlTask ==
    \E r \in 1 .. MaxRequests :
      /\ Answered(r, << PrintTask(r, "image-data") >>)
      /\ UNCHANGED << inside, callers >>

\* the serial device goes away, and comes back
DeviceDown ==
    /\ ~args_stdout
    /\ device
    /\ device' = FALSE
    /\ UNCHANGED << args_stdout, serving, requests, print_queue, pc, task,
                    step, printer, tag_printer, created, inside, callers,
                    last, failed_at, handled, died >>
    /\ UNCHANGED driver_vars

DeviceUp ==
    /\ ~device
    /\ device' = TRUE
    /\ UNCHANGED << args_stdout, serving, requests, print_queue, pc, task,
                    step, printer, tag_printer, created, inside, callers,
                    last, failed_at, handled, died >>
    /\ UNCHANGED driver_vars

\* print_loop: printer = create_printer(args); tag_adapter = TagAdapter(printer)
Create ==
    /\ pc = "create"
    /\ IF create_printer(args_stdout, device) = "ok"
       THEN /\ created' = created + 1
            /\ printer' = created + 1
            /\ tag_printer' = created + 1
            /\ pc' = "probe"
            /\ died' = died
       ELSE /\ pc' = "dead"
            /\ died' = "IOError"
            /\ UNCHANGED << created, printer, tag_printer >>
    /\ UNCHANGED << args_stdout, device, serving, requests, print_queue,
                    task, step, inside, callers, last, failed_at, handled >>
    /\ UNCHANGED driver_vars

\* the worker enters the driver operation it is about to call
Enter ==
    /\ pc \in {"probe", "job", "trailer"}
    /\ "worker" \notin inside
    /\ inside' = inside \cup {"worker"}
    /\ callers' = callers \cup {"worker"}
    /\ UNCHANGED << args_stdout, device, serving, requests, print_queue,
                    pc, task, step, printer, tag_printer, created, last,
                    failed_at, handled, died >>
    /\ UNCHANGED driver_vars

\* print_loop: try: printer.set_size('S'); except IOError: ...
Probe ==
    /\ pc = "probe"
    /\ "worker" \in inside
    /\ inside' = inside \ {"worker"}
    /\ LET res == driver_call(args_stdout, device)
       IN /\ last' = [what |-> "probe", on |-> printer, job |-> 0, res |-> res]
          /\ pc' = IF res = "ok" THEN "get" ELSE "reconnect"
          /\ failed_at' = IF res = "ok" THEN failed_at ELSE created
    /\ UNCHANGED << args_stdout, device, serving, requests, print_queue,
                    task, step, printer, tag_printer, created, callers,
                    handled, died >>
    /\ UNCHANGED driver_vars

\* print_loop, in the handler of the probe's IOError: time.sleep(1);
\* printer = create_printer(args); continue
Reconnect ==
    /\ pc = "reconnect"
    /\ created < MaxPrinters
    /\ IF create_printer(args_stdout, device) = "ok"
       THEN /\ created' = created + 1
            /\ printer' = created + 1
            /\ pc' = "probe"
            /\ died' = died
       ELSE /\ pc' = "dead"
            /\ died' = "IOError"
            /\ UNCHANGED << created, printer >>
    /\ UNCHANGED << args_stdout, device, serving, requests, print_queue,
                    task, step, tag_printer, inside, callers, last,
                    failed_at, handled >>
    /\ UNCHANGED driver_vars

\* print_loop: task = print_queue.get(); if task is stop_sentinel: break
Get ==
    /\ pc = "get"
    /\ print_queue # << >>
    /\ print_queue' = Tail(print_queue)
    /\ IF Head(print_queue) = stop_sentinel
       THEN pc' = "stopped" /\ UNCHANGED << task, step, handled >>
       ELSE /\ pc' = "job"
            /\ task' = Head(print_queue)
            /\ step' = 1
            /\ handled' = Append(handled, Head(print_queue).id)
    /\ UNCHANGED << args_stdout, device, serving, requests, printer,
                    tag_printer, created, inside, callers, last, failed_at,
                    died >>
    /\ UNCHANGED driver_vars

\* print_loop: one driver call of the task at hand, and the handler of its
\* IOError (the message is printed and the loop goes round)
Job ==
    /\ pc = "job"
    /\ "worker" \in inside
    /\ inside' = inside \ {"worker"}
    /\ LET call == JobCalls(task.format_type)[step]
           on == IF call.on = "printer" THEN printer ELSE tag_printer
           res == IF call.what = "print_image" THEN "TypeError"
                  ELSE driver_call(args_stdout, device)
       IN /\ last' = [what |-> call.what, on |-> on, job |-> task.id, res |-> res]
          /\ pc' = CASE res = "TypeError" -> "dead"
                     [] res = "IOError" -> "probe"
                     [] step < Len(JobCalls(task.format_type)) -> "job"
                     [] OTHER -> "trailer"
          /\ step' = IF res = "ok" THEN step + 1 ELSE step
          /\ died' = IF res = "TypeError" THEN "TypeError" ELSE died
          /\ failed_at' = IF res = "IOError" THEN created ELSE failed_at
    /\ UNCHANGED << args_stdout, device, serving, requests, print_queue,
                    task, printer, tag_printer, created, callers, handled >>
    /\ UNCHANGED driver_vars

\* print_loop: printer.print("\n" * 3); print_queue.task_done()
Trailer ==
    /\ pc = "trailer"
    /\ "worker" \in inside
    /\ inside' = inside \ {"worker"}
    /\ LET res == driver_call(args_stdout, device)
       IN /\ last' = [what |-> "trailer", on |-> printer, job |-> task.id,
                      res |-> res]
          /\ failed_at' = IF res = "IOError" THEN created ELSE failed_at
    /\ pc' = "probe"
    /\ UNCHANGED << args_stdout, device, serving, requests, print_queue,
                    task, step, printer, tag_printer, created, callers,
                    handled, died >>
    /\ UNCHANGED driver_vars

LoopNext ==
    \/ Main
    \/ Shutdown
    \/ AddPrintTask
    \/ AddImagePrintTask
    \/ AddImagePrintUrlTask
    \/ DeviceDown
    \/ DeviceUp
    \/ Create
    \/ Enter
    \/ Probe
    \/ Reconnect
    \/ Get
    \/ Job
    \/ Trailer

\* the daemon as thermald.py starts it: create_printer passes no firmware
LoopInit == Init /\ firmware_version = DEFAULT_FIRMWARE

LoopSpec == LoopInit /\ [][LoopNext]_vars

\* the steps of the worker thread
WorkerStep == Create \/ Enter \/ Probe \/ Reconnect \/ Get \/ Job \/ Trailer

\* the daemon with its threads scheduled: main() gets to start the worker,
\* and the worker thread, once a step of print_loop can be taken (for the
\* blocking print_queue.get(): once the queue holds an item), takes it
LoopLiveSpec ==
    /\ LoopSpec
    /\ WF_vars(Main)
    /\ WF_vars(WorkerStep)

---------------------------------------------------------------------------
(* Reading the record of the last call *)

\* a driver operation (not the constructor) has returned and is on record
Called == op \notin {"idle", "init"}

\* the indices of the gate events of kind k in the log
EventsOf(k) == {i \in DOMAIN log : log[i].k = k}

\* resume_time right after the timeout_set logged at index i
SetTo(i) == log[i].now + log[i].v

\* the gate events (wait, set) before and after index i
GatesBefore(i) == {j \in 1 .. i - 1 : log[j].k \in {"wait", "set"}}

GatesAfter(i) == {j \in i + 1 .. Len(log) : log[j].k \in {"wait", "set"}}

\* a byte sequence as the transport receives it: the bytes themselves on the
\* serial link, the decimal text of each value on the pass-through sink
Emitted(bytes) == IF write_to_stdout THEN StrAll(bytes) ELSE bytes

---------------------------------------------------------------------------
(* C1 *)

\* C1: resume_time never decreases, neither over an operation (wake() as the
\* constructor calls it included) nor at any timeout_set inside one.
C1_ResumeTimeNeverDecreases ==
    /\ Called => resume_time >= pre.resume_time
    /\ \A i \in EventsOf("set") : SetTo(i) >= log[i].rt

---------------------------------------------------------------------------
(* C2 *)

\* C2: on the serial transport every byte is handed to the transport at a
\* time at or past resume_time.
C2_NoByteBeforeResumeTime ==
    (Called /\ ~write_to_stdout) =>
      \A i \in EventsOf("byte") : log[i].now >= log[i].rt

---------------------------------------------------------------------------
(* C3 *)

\* C3: every byte is written between the wait and the schedule step of its
\* unit: the last gate step before a byte is a timeout_wait, the first gate
\* step after it is a timeout_set.
C3_WaitWriteSchedule ==
    Called =>
      \A i \in EventsOf("byte") :
        /\ GatesBefore(i) # {}
        /\ log[CHOOSE j \in GatesBefore(i) : \A m \in GatesBefore(i) : m <= j].k = "wait"
        /\ GatesAfter(i) # {}
        /\ log[CHOOSE j \in GatesAfter(i) : \A m \in GatesAfter(i) : m >= j].k = "set"

---------------------------------------------------------------------------
(* C4 *)

\* whether the bit b (a power of two) is set in the mask m
HasBit(m, b) == (m \div b) % 2 = 1

WithBit(m, b) == IF HasBit(m, b) THEN m ELSE m + b

WithoutBit(m, b) == IF HasBit(m, b) THEN m - b ELSE m

\* the bit each *_on toggle sets
OnBit ==
    [o \in {"bold_on", "strike_on", "upside_down_on", "double_height_on",
            "double_width_on"} |->
       CASE o = "bold_on" -> BOLD_MASK
         [] o = "strike_on" -> STRIKE_MASK
         [] o = "upside_down_on" -> UPDOWN_MASK
         [] o = "double_height_on" -> DOUBLE_HEIGHT_MASK
         [] o = "double_width_on" -> DOUBLE_WIDTH_MASK]

\* the bit each *_off toggle clears
OffBit ==
    [o \in {"bold_off", "strike_off", "upside_down_off", "double_height_off",
            "double_width_off"} |->
       CASE o = "bold_off" -> BOLD_MASK
         [] o = "strike_off" -> STRIKE_MASK
         [] o = "upside_down_off" -> UPDOWN_MASK
         [] o = "double_height_off" -> DOUBLE_HEIGHT_MASK
         [] o = "double_width_off" -> DOUBLE_WIDTH_MASK]

\* C4: each *_on toggle leaves print_mode with its own bit set and every
\* other bit as before, each *_off toggle with its own bit clear and every
\* other bit as before (inverse on/off likewise on firmware below 268); so a
\* sequence of toggles composes in call order, and a toggle repeated changes
\* nothing.
C4_TogglesComposeInCallOrder ==
    /\ op \in DOMAIN OnBit => print_mode = WithBit(pre.print_mode, OnBit[op])
    /\ op \in DOMAIN OffBit => print_mode = WithoutBit(pre.print_mode, OffBit[op])
    /\ (op = "inverseOn" /\ firmware_version < 268) =>
         print_mode = WithBit(pre.print_mode, INVERSE_MASK)
    /\ (op = "inverse_off" /\ firmware_version < 268) =>
         print_mode = WithoutBit(pre.print_mode, INVERSE_MASK)
    /\ (op \in DOMAIN OnBit /\ HasBit(pre.print_mode, OnBit[op])) =>
         print_mode = pre.print_mode
    /\ (op \in DOMAIN OffBit /\ ~HasBit(pre.print_mode, OffBit[op])) =>
         print_mode = pre.print_mode

\* C4 witness: bold_on called a second time in a row
C4_Witness ==
    /\ op = "bold_on"
    /\ HasBit(pre.print_mode, BOLD_MASK)
    /\ print_mode = pre.print_mode

---------------------------------------------------------------------------
(* C5 *)

\* C5: in every reachable state 0 <= column < max_column.
C5_ColumnInRange == 0 <= column /\ column < max_column

---------------------------------------------------------------------------
(* C6 *)

\* a non-empty text of printable ASCII characters
IsRun(data) ==
    /\ data # << >>
    /\ \A i \in DOMAIN data : data[i] \in 32 .. 126

\* the busy time write() schedules for the byte that ends a text line
TextLineTime ==
    byte_time + char_height * dot_print_time + line_spacing * dot_feed_time

\* C6: write() of a run of characters from column 0 on the serial transport
\* wraps right after every max_column-th character: the text-line time is
\* scheduled at exactly those characters, and the run leaves column at its
\* length modulo max_column, prev_byte a newline when it ended on a wrap.
C6_WrapAfterEveryMaxColumn ==
    (op = "write" /\ ~write_to_stdout /\ pre.column = 0 /\ IsRun(arg)) =>
      /\ column = Len(arg) % max_column
      /\ (Len(arg) % max_column = 0) => prev_byte = NL
      /\ \A k \in 1 .. Len(arg) :
           (log[3 * k].v = TextLineTime) <=> (k % max_column = 0)

---------------------------------------------------------------------------
(* C7 *)

Min(a, b) == IF a <= b THEN a ELSE b

CeilDiv(a, b) == IF a % b = 0 THEN a \div b ELSE (a \div b) + 1

RECURSIVE Flatten(_)
\* the sequences of a sequence, one after the other
Flatten(seqs) ==
    IF seqs = << >> THEN << >>
    ELSE IF Len(seqs) = 1 THEN seqs[1]
    ELSE LET h == Len(seqs) \div 2
         IN Flatten(SubSeq(seqs, 1, h)) \o Flatten(SubSeq(seqs, h + 1, Len(seqs)))

\* what print_bitmap(w, h, bitmap, laa_t) is to send: per chunk the header
\* and, of each row of the chunk, the first min(rowBytes, 48) bytes
BitmapStream(w, h, bitmap, laa_t) ==
    LET rowBytes == CeilDiv(w, 8)
        clipped == Min(rowBytes, 48)
        maxChunk == IF laa_t THEN 1 ELSE 255
        chunks == CeilDiv(h, maxChunk)
        ChunkHeight(c) == Min(maxChunk, h - (c - 1) * maxChunk)
        Row(r) == SubSeq(bitmap, (r - 1) * rowBytes + 1, (r - 1) * rowBytes + clipped)
        Chunk(c) ==
          << 18, 42, ChunkHeight(c), clipped >>
          \o Flatten([y \in 1 .. ChunkHeight(c) |-> Row((c - 1) * maxChunk + y)])
    IN Flatten([c \in 1 .. chunks |-> Chunk(c)])

---------------------------------------------------------------------------
(* C8 *)

\* the symbologies the firmware family has no code for
Unsupported(firmware) ==
    IF firmware >= 264 THEN {I25, CODEBAR, CODE11, MSI} ELSE {ITF, CODABAR}

\* C8: print_barcode of a symbology the firmware family does not have writes
\* nothing, raises nothing and leaves prev_byte, column and resume_time alone.
C8_UnsupportedBarcodeIsNoOp ==
    (op = "print_barcode" /\ arg.type \in Unsupported(firmware_version)) =>
      /\ out = << >>
      /\ log = << >>
      /\ raised = "none"
      /\ prev_byte = pre.prev_byte
      /\ column = pre.column
      /\ resume_time = pre.resume_time

\* C8 witness: an unsupported symbology asked for in the middle of a line,
\* while the printer was busy
C8_Witness ==
    /\ op = "print_barcode"
    /\ arg.type \in Unsupported(firmware_version)
    /\ pre.prev_byte # NL
    /\ pre.column > 0
    /\ pre.resume_time > pre.now
    /\ out = << >>

---------------------------------------------------------------------------
(* C9 *)

---------------------------------------------------------------------------
(* C10 *)

\* a freshly constructed driver on the same transport and firmware
Fresh ==
    construct(write_to_stdout, DEFAULT_BAUDRATE, firmware_version, default_heat_time)

\* C10: reset() sends 27 64, and the tab stops exactly on firmware >= 264,
\* and leaves print_mode 0 and column, max_column, char_height, line_spacing,
\* barcode_height and prev_byte as in a freshly constructed driver.
C10_ResetRestoresDefaults ==
    op = "reset" =>
      /\ out = Emitted(<< 27, 64 >>
                       \o (IF firmware_version >= 264
                           THEN << 27, 68, 4, 8, 12, 16, 20, 24, 28, 0 >>
                           ELSE << >>))
      /\ print_mode = 0
      /\ column = Fresh.column
      /\ max_column = Fresh.max_column
      /\ char_height = Fresh.char_height
      /\ line_spacing = Fresh.line_spacing
      /\ barcode_height = Fresh.barcode_height
      /\ prev_byte = Fresh.prev_byte

---------------------------------------------------------------------------
(* C11 *)

\* the text without its XOFF characters
WithoutXoff(data) == SelectSeq(data, LAMBDA c : c # XOFF)

\* C11: on either transport write() of a text holding the character 0x13
\* sends what write() of the text without it sends, and leaves resume_time,
\* column and prev_byte as that call does; a text of 0x13 alone sends
\* nothing and changes nothing.
C11_XoffIsFilteredOut ==
    (op = "write" /\ \E i \in DOMAIN arg : arg[i] = XOFF) =>
      LET r == write(pre, WithoutXoff(arg))
      IN /\ out = r.out
         /\ resume_time = r.resume_time
         /\ column = r.column
         /\ prev_byte = r.prev_byte

---------------------------------------------------------------------------
(* C12 *)

\* n newline characters
Newlines(n) == [i \in 1 .. n |-> NL]

---------------------------------------------------------------------------
(* C13 *)

\* C13: inverse_on() and inverse_off() can be called; on firmware >= 268
\* they send 29 66 1 and 29 66 0 and leave print_mode alone, on firmware
\* below 268 they set and clear the INVERSE bit of print_mode and send
\* 27 33 print_mode.
C13_InverseByFirmware ==
    /\ op = "inverse_on" =>
         /\ raised = "none"
         /\ IF firmware_version >= 268
            THEN out = Emitted(<< 29, 66, 1 >>) /\ print_mode = pre.print_mode
            ELSE /\ print_mode = WithBit(pre.print_mode, INVERSE_MASK)
                 /\ out = Emitted(<< 27, 33, print_mode >>)
    /\ op = "inverse_off" =>
         /\ raised = "none"
         /\ IF firmware_version >= 268
            THEN out = Emitted(<< 29, 66, 0 >>) /\ print_mode = pre.print_mode
            ELSE /\ print_mode = WithoutBit(pre.print_mode, INVERSE_MASK)
                 /\ out = Emitted(<< 27, 33, print_mode >>)

---------------------------------------------------------------------------
(* C14 *)

\* the text part print_barcode is to send: on firmware >= 264 the length
\* byte and that many characters, below 264 the characters and a NUL
BarcodeTextPart(text) ==
    LET n == Min(Len(text), 255)
    IN IF firmware_version >= 264
       THEN Emitted(<< n >>) \o SubSeq(text, 1, n)
       ELSE text \o Emitted(<< 0 >>)

\* C14: print_barcode of a supported symbology sends, after its line feed,
\* 29 72 2, 29 119 3, 29 107 code, then waits and schedules
\* (barcode_height + 40) * dot_print_time, then sends the text part, and
\* raises nothing.
C14_BarcodeProtocol ==
    (op = "print_barcode" /\ arg.type \notin Unsupported(firmware_version)) =>
      LET code == IF firmware_version >= 264
                  THEN new_dict[arg.type] ELSE old_dict[arg.type]
          head == feed(pre, 1).out
                  \o Emitted(<< 29, 72, 2, 29, 119, 3, 29, 107, code >>)
      IN /\ raised = "none"
         /\ out = head \o BarcodeTextPart(arg.text)
         /\ \E i \in EventsOf("set") :
              /\ i > 1 /\ log[i - 1].k = "wait"
              /\ log[i].v = (barcode_height + 40) * dot_print_time
              /\ ~write_to_stdout =>
                   Cardinality({j \in EventsOf("byte") : j < i}) = Len(head)

---------------------------------------------------------------------------
(* C15 *)

\* v clamped to the nearest bound of lo .. hi
Clamp(v, lo, hi) == IF v < lo THEN lo ELSE IF v > hi THEN hi ELSE v

\* C15: underline_on(weight), set_charset(val) and set_code_page(val) send
\* their argument clamped to 0..2, 0..15 and 0..47 as the parameter byte,
\* whatever the argument, and raise nothing.
C15_ParametersAreClamped ==
    /\ op = "underline_on" =>
         raised = "none" /\ out = Emitted(<< 27, 45, Clamp(arg, 0, 2) >>)
    /\ op = "set_charset" =>
         raised = "none" /\ out = Emitted(<< 27, 82, Clamp(arg, 0, 15) >>)
    /\ op = "set_code_page" =>
         raised = "none" /\ out = Emitted(<< 27, 116, Clamp(arg, 0, 47) >>)

---------------------------------------------------------------------------
(* C16 *)

---------------------------------------------------------------------------
(* C17 *)

\* C17: when a Serial.write fails inside a driver operation, that write is
\* attempted once, nothing is written, waited for or scheduled after it, the
\* bytes sent before it stay as they were sent, and the operation ends with
\* the IOError raised to its caller.
C17_WriteFailureIsNotRetried ==
    (EventsOf("fail") # {}) =>
      /\ Cardinality(EventsOf("fail")) = 1
      /\ log[Len(log)].k = "fail"
      /\ raised = "IOError"
      /\ ret = "None"
      /\ Len(out) = Cardinality(EventsOf("byte"))

\* C17 witness: set_size() lost the link at its third byte: two bytes went
\* out, the third was tried once and the call raised
C17_Witness ==
    /\ op = "set_size"
    /\ pre.link = 2
    /\ out = << 29, 33 >>
    /\ log[Len(log)].k = "fail"
    /\ raised = "IOError"

---------------------------------------------------------------------------
(* C18 *)

\* C18, first part: when print_loop starts on a job, its last driver call
\* was a probe set_size('S') on the current printer and it succeeded.
ProbePrecedesJob ==
    (pc = "job" /\ step = 1) =>
      last.what = "probe" /\ last.res = "ok" /\ last.on = printer

\* C18: a successful probe precedes every job, and while a job is handled
\* no driver call has raised IOError since the current driver was
\* constructed: after every failure a new driver is constructed first.
C18_ProbeAndReconstruct ==
    /\ ProbePrecedesJob
    /\ pc = "job" => created > failed_at

---------------------------------------------------------------------------
(* C19 *)

\* C19: no I/O failure ends print_loop once it runs: having constructed its
\* first printer, the worker never dies of an IOError, whether raised by the
\* probe, by a job or by the construction of the next printer.
C19_LoopSurvivesIOFailure == ~(pc = "dead" /\ died = "IOError" /\ created > 0)

---------------------------------------------------------------------------
(* C20 *)

\* C20: only the worker calls driver operations and is ever inside one, the
\* request handlers never; and every driver call made for a job is made for
\* the job dequeued last, so no call of a job comes after a later job began.
C20_OnlyTheWorkerDrivesThePrinter ==
    /\ callers \subseteq {"worker"}
    /\ inside \subseteq {"worker"}
    /\ last.job # 0 => last.job = handled[Len(handled)]
    /\ (pc \in {"job", "trailer"}) => task.id = handled[Len(handled)]

\* C20 witness: both requests were answered and the worker is inside a
\* driver call of the second job, the first having been handled before
C20_Witness ==
    /\ \A r \in 1 .. MaxRequests : requests[r] = "answered"
    /\ Len(handled) = 2
    /\ pc = "job"
    /\ "worker" \in inside
    /\ last.what = "probe"
    /\ callers = {"worker"}

---------------------------------------------------------------------------
(* C21 *)

\* the operations that go through set_print_mode or unset_print_mode
ModeToggles == DOMAIN OnBit \cup DOMAIN OffBit

\* C21: after every operation that changes print_mode (a mode toggle, inverse
\* on and off on firmware below 268, normal()) char_height is 48 if
\* DOUBLE_HEIGHT is set in print_mode and 24 if not, and max_column is 16 if
\* DOUBLE_WIDTH is set and 32 if not, whatever an earlier set_size left.
C21_DimensionsFollowPrintMode ==
    (\/ op \in ModeToggles
     \/ op = "normal"
     \/ (op \in {"inverseOn", "inverse_off"} /\ firmware_version < 268)) =>
      /\ char_height = (IF HasBit(print_mode, DOUBLE_HEIGHT_MASK) THEN 48 ELSE 24)
      /\ max_column = (IF HasBit(print_mode, DOUBLE_WIDTH_MASK) THEN 16 ELSE 32)

---------------------------------------------------------------------------
(* C22 *)

RECURSIVE LineTrack(_, _, _)
\* column and prev_byte after the characters of data, when every newline and
\* every character met with the column at max_column ends the line (column
\* 0, prev_byte a newline) and every other character adds one to the column
\* and becomes prev_byte
LineTrack(col, prev, data) ==
    IF data = << >> THEN [column |-> col, prev_byte |-> prev]
    ELSE IF Head(data) = NL \/ col = max_column
         THEN LineTrack(0, NL, Tail(data))
         ELSE LineTrack(col + 1, Head(data), Tail(data))

\* C22: write() on the serial transport leaves column and prev_byte as the
\* line tracking of its characters (0x13 apart) leaves them: a line boundary,
\* on a blank line as on a text line, ends with column 0 and prev_byte a
\* newline, any other character adds one to column and is prev_byte.
C22_LineBoundaryResetsColumn ==
    (op = "write" /\ ~write_to_stdout) =>
      LET t == LineTrack(pre.column, pre.prev_byte, WithoutXoff(arg))
      IN column = t.column /\ prev_byte = t.prev_byte

---------------------------------------------------------------------------
(* C23 *)

\* the index in the log of the k-th timeout_set of the operation
NthSet(k) ==
    CHOOSE i \in EventsOf("set") :
      Cardinality({j \in EventsOf("set") : j <= i}) = k

\* the busy time due for the character c met by the driver in state s
BusyTime(s, c) ==
    IF ~(c = NL \/ s.column = s.max_column)
    THEN s.byte_time
    ELSE IF s.prev_byte # NL
         THEN s.byte_time + s.char_height * s.dot_print_time
              + s.line_spacing * s.dot_feed_time
         ELSE s.byte_time + (s.char_height + s.line_spacing) * s.dot_feed_time

\* C23: write() on the serial transport schedules once per character (0x13
\* apart), and for the k-th character the busy time is byte_time when it is
\* no line boundary, byte_time + char_height * dot_print_time + line_spacing
\* * dot_feed_time when it ends a text line, byte_time + (char_height +
\* line_spacing) * dot_feed_time when it ends a blank line, with the values
\* the driver holds when it meets the character.
C23_BusyTimePerByte ==
    (op = "write" /\ ~write_to_stdout) =>
      LET data == WithoutXoff(arg)
      IN /\ Cardinality(EventsOf("set")) = Len(data)
         /\ \A k \in 1 .. Len(data) :
              log[NthSet(k)].v = BusyTime(write(pre, SubSeq(data, 1, k - 1)), data[k])

\* C23 witness: write('a\n') at double height scheduled byte_time for the
\* letter and the time of a text line of 48 dot rows for the newline
C23_Witness ==
    /\ op = "write"
    /\ ~write_to_stdout
    /\ arg = << 97, NL >>
    /\ pre.char_height = 48
    /\ pre.prev_byte = NL
    /\ log[NthSet(1)].v = byte_time
    /\ log[NthSet(2)].v = byte_time + 48 * dot_print_time + line_spacing * dot_feed_time

---------------------------------------------------------------------------
(* C24 *)

\* C24: after set_size(value), whatever the value and the state it was
\* called in, prev_byte is a newline.
C24_SetSizeRecordsNewline ==
    (op = "set_size" /\ raised = "none") => prev_byte = NL

---------------------------------------------------------------------------
(* C25 *)

\* C25: every driver operation of a job, whatever its format, is called on
\* the driver print_loop holds at that time: once the loop has replaced the
\* driver, on the new one and never on a discarded one.
C25_JobsUseTheCurrentDriver ==
    (last.job # 0) => last.on = printer

---------------------------------------------------------------------------
(* C26 *)

\* the operations that send one command and keep no state of their own
PureCommands ==
    {"justify", "underline_on", "underline_off", "set_charset",
     "set_code_page", "online", "offline", "sleep_after", "set_char_spacing"}

\* C26: justify, underline_on, underline_off, set_charset, set_code_page,
\* online, offline, sleep_after and set_char_spacing leave column,
\* max_column, char_height, print_mode, prev_byte, line_spacing,
\* barcode_height and firmware_version as they were, and never move
\* resume_time back.
C26_PureCommandsFrame ==
    op \in PureCommands =>
      /\ column = pre.column
      /\ max_column = pre.max_column
      /\ char_height = pre.char_height
      /\ print_mode = pre.print_mode
      /\ prev_byte = pre.prev_byte
      /\ line_spacing = pre.line_spacing
      /\ barcode_height = pre.barcode_height
      /\ firmware_version = pre.firmware_version
      /\ resume_time >= pre.resume_time

\* C26 witness: justify('C') in the middle of a double-height line on the
\* serial transport sent its three bytes and left the line state alone
C26_Witness ==
    /\ op = "justify"
    /\ arg = 67
    /\ ~write_to_stdout
    /\ pre.column > 0
    /\ pre.prev_byte # NL
    /\ out = << 27, 97, 1 >>
    /\ column = pre.column
    /\ prev_byte = pre.prev_byte
    /\ resume_time > pre.resume_time

---------------------------------------------------------------------------
(* C27 *)

\* the jobs still on the queue
JobsLeft == SelectSeq(print_queue, LAMBDA t : t # stop_sentinel)

\* print_loop has ended: it left the loop at the sentinel, or an exception
\* nothing catches has ended the worker thread
LoopEnded == pc \in {"stopped", "dead"}

\* C27: when the device never goes away, so that every probe succeeds, then
\* once main() has put the stop sentinel on the queue print_loop eventually
\* ends with no job left on the queue: every job put on the queue before
\* the sentinel has been taken off it.
C27_SentinelEndsTheLoop ==
    []device => ((serving = "over") ~> (LoopEnded /\ JobsLeft = << >>))

=============================================================================
